---- MODULE Spec2Model ----
(***************************************************************************)
(* Inventory service: the stock ledger, the Stock Consistency Orchestrator *)
(* (InventoryService), the two RPC responders (ORDER_STOCK_CHECK and       *)
(* ORDER_STOCK_DEDUCT consumers) and the broker connection manager         *)
(* (RabbitMQService).                                                      *)
(*                                                                         *)
(* Asynchronous functions are modelled one step per suspension point: a    *)
(* step is the effect of the awaited I/O (a ledger read or write, a broker *)
(* round trip) followed by the synchronous code up to the next await.      *)
(* A throw and the catch block it lands in are one step.                   *)
(***************************************************************************)
EXTENDS Integers, Sequences, FiniteSets, TLC

VARIABLES
    ledger,       \* productCode -> [name, quantity]: the inventory collection
    direct,       \* the service call made by the HTTP controller
    rpc,          \* the run of an RPC consumer callback on one request message
    channelOpen,  \* this.channel accepts publish/ack (not closed)
    conn          \* the connection manager (RabbitMQService fields and tasks)

vars == <<ledger, direct, rpc, channelOpen, conn>>

---------------------------------------------------------------------------
(* Bounds                                                                  *)

MaxQty == 1
MaxItems == 2
MaxConns == 2
MaxTasks == 2

Codes == {"A", "B"}
Qtys == 0 .. MaxQty
Msgs == {"m1", "m2"}

---------------------------------------------------------------------------
(* Values                                                                  *)

STOCK_ADDED == "STOCK_ADDED"
STOCK_REDUCED == "STOCK_REDUCED"
STOCK_UPDATED == "STOCK_UPDATED"

INVENTORY == "inventory.exchange"
ORDER_STOCK_CHECK == "ORDER_STOCK_CHECK"
ORDER_STOCK_DEDUCT == "ORDER_STOCK_DEDUCT"
Queues == {ORDER_STOCK_CHECK, ORDER_STOCK_DEDUCT}

NoItem == [name |-> "", quantity |-> -1]
NoEvent == [eventType |-> "", productCode |-> "", previousQuantity |-> -1,
            newQuantity |-> -1, productName |-> ""]
NoResult == [status |-> "pending", error |-> "", message |-> "",
             available |-> FALSE, currentStock |-> -1]

\* dto.name of the item created under a product code
NameOf(code) == IF code = "A" THEN "Alpha" ELSE "Beta"

Last(s) == s[Len(s)]

\* Array.prototype.join
RECURSIVE Join(_, _)
Join(s, sep) ==
    IF Len(s) = 0 THEN ""
    ELSE IF Len(s) = 1 THEN s[1]
    ELSE s[1] \o sep \o Join(Tail(s), sep)

\* String.prototype.toLowerCase on the event kinds
ToLowerCase(s) ==
    CASE s = STOCK_ADDED -> "stock_added"
      [] s = STOCK_REDUCED -> "stock_reduced"
      [] s = STOCK_UPDATED -> "stock_updated"
      [] OTHER -> s

---------------------------------------------------------------------------
(* InventoryRepository                                                     *)

findItemById(l, productCode) ==
    IF productCode \in DOMAIN l THEN l[productCode] ELSE NoItem

\* findOneAndUpdate({productCode}, {quantity}): sets the quantity when the
\* document exists
repoUpdateStock(l, productCode, quantity) ==
    IF productCode \in DOMAIN l
    THEN [l EXCEPT ![productCode].quantity = quantity]
    ELSE l

\* new Model(dto).save(): inserts the document
repoCreateItem(l, productCode, name, quantity) ==
    [c \in DOMAIN l \cup {productCode} |->
        IF c = productCode THEN [name |-> name, quantity |-> quantity]
        ELSE l[c]]

\* a save that applies the change of the document to the stored quantity
MutDocumentSaveRelative(l, productCode, fetched, newQuantity) ==
    IF newQuantity = fetched.quantity THEN l
    ELSE repoUpdateStock(l, productCode,
                         l[productCode].quantity - (fetched.quantity - newQuantity))

\* document.save() of a fetched document whose quantity was assigned
\* newQuantity: writes $set quantity when the path was modified (the value
\* differs from the fetched one), nothing otherwise
documentSave(l, productCode, fetched, newQuantity) ==
    IF newQuantity = fetched.quantity THEN l
    ELSE repoUpdateStock(l, productCode, newQuantity)

---------------------------------------------------------------------------
(* InventoryService: one record per call in progress                       *)

NoCall ==
    [op |-> "none", pc |-> "idle", code |-> "", qty |-> 0, item |-> NoItem,
     event |-> NoEvent, handed |-> 0, emitted |-> 0, wrote |-> 0,
     interfered |-> FALSE, result |-> NoResult, exchange |-> "", routingKey |-> ""]

NewCall(op, code, qty) ==
    [NoCall EXCEPT !.op = op, !.pc = "find", !.code = code, !.qty = qty]

Running(c) == c.pc \in {"find", "write", "publish"}
Ended(c) == c.pc \in {"returned", "threw"}

\* the call ends: its fetched document goes out of scope
Throw(c, error, message) ==
    [c EXCEPT !.pc = "threw", !.item = NoItem, !.interfered = FALSE,
              !.result = [NoResult EXCEPT !.status = "error", !.error = error,
                                          !.message = message]]

Return(c) ==
    [c EXCEPT !.pc = "returned", !.item = NoItem, !.interfered = FALSE,
              !.result.status = "ok"]

InsufficientStockMessage(name, requested, availableQty) ==
    "Insufficient stock for " \o name \o ". Requested: " \o ToString(requested)
        \o ", Available: " \o ToString(availableQty)

\* checkStock comparing with > instead of >=
MutCheckStockStrict(l, productCode, quantity) ==
    LET inventory == findItemById(l, productCode) IN
    IF inventory = NoItem
    THEN [status |-> "ok", error |-> "", available |-> FALSE,
          message |-> "Item not found in inventory", currentStock |-> 0]
    ELSE LET available == inventory.quantity > quantity IN
         [status |-> "ok", error |-> "", available |-> available,
          message |-> IF available THEN "Stock available"
                      ELSE "Insufficient stock. Requested: " \o ToString(quantity)
                           \o ", Available: " \o ToString(inventory.quantity),
          currentStock |-> inventory.quantity]

\* checkStock: the result for the ledger as read by findItemById
checkStock(l, productCode, quantity) ==
    LET inventory == findItemById(l, productCode) IN
    IF inventory = NoItem
    THEN [status |-> "ok", error |-> "", available |-> FALSE,
          message |-> "Item not found in inventory", currentStock |-> 0]
    ELSE LET available == inventory.quantity >= quantity IN
         [status |-> "ok", error |-> "", available |-> available,
          message |-> IF available THEN "Stock available"
                      ELSE "Insufficient stock. Requested: " \o ToString(quantity)
                           \o ", Available: " \o ToString(inventory.quantity),
          currentStock |-> inventory.quantity]

\* deductStock without the insufficient-stock guard
MutDeductStockFindNoGuard(c, l) ==
    LET inventory == findItemById(l, c.code) IN
    IF inventory = NoItem THEN Throw(c, "NotFoundException", "Item not found")
    ELSE [c EXCEPT !.pc = "write", !.item = inventory]

\* deductStock with the two quantities of the error message swapped
MutDeductStockFindSwapped(c, l) ==
    LET inventory == findItemById(l, c.code) IN
    IF inventory = NoItem THEN Throw(c, "NotFoundException", "Item not found")
    ELSE IF inventory.quantity < c.qty
    THEN Throw(c, "Error",
               InsufficientStockMessage(inventory.name, inventory.quantity, c.qty))
    ELSE [c EXCEPT !.pc = "write", !.item = inventory]

\* deductStock up to inventory.save(): getItem, the two guards, the decrement
deductStockFind(c, l) ==
    LET inventory == findItemById(l, c.code) IN
    IF inventory = NoItem THEN Throw(c, "NotFoundException", "Item not found")
    ELSE IF inventory.quantity < c.qty
    THEN Throw(c, "Error",
               InsufficientStockMessage(inventory.name, c.qty, inventory.quantity))
    ELSE [c EXCEPT !.pc = "write", !.item = inventory]

\* updateStock up to repository.updateStock
updateStockFind(c, l) ==
    LET item == findItemById(l, c.code) IN
    IF item = NoItem THEN Throw(c, "NotFoundException", "Item not found")
    ELSE [c EXCEPT !.pc = "write", !.item = item]

\* createItem up to repository.createItem. With a product code supplied the
\* code must be unused; without one (code "") generateUniqueProductCode
\* sampled the candidate productCode, which is kept when it is unused and
\* sampled again otherwise
createItemFind(c, l, productCode) ==
    LET existingItem == findItemById(l, productCode) IN
    IF c.code # ""
    THEN IF existingItem # NoItem
         THEN Throw(c, "ConflictException",
                    "Item with this product code already exists")
         ELSE [c EXCEPT !.pc = "write"]
    ELSE IF existingItem # NoItem THEN c
         ELSE [c EXCEPT !.pc = "write", !.code = productCode]

\* the ledger after the call's write
WriteLedger(c, l) ==
    CASE c.op = "deductStock" ->
            documentSave(l, c.code, c.item, c.item.quantity - c.qty)
      [] c.op = "updateStock" -> repoUpdateStock(l, c.code, c.qty)
      [] c.op = "createItem" ->
            IF c.code \in DOMAIN l THEN l
            ELSE repoCreateItem(l, c.code, NameOf(c.code), c.qty)
      [] OTHER -> l

\* the events with deductStock's previousQuantity taken after the decrement
MutStockEventOfStalePrevious(c) ==
    CASE c.op = "deductStock" ->
            LET quantity == c.item.quantity - c.qty IN
            [eventType |-> STOCK_REDUCED, productCode |-> c.code,
             previousQuantity |-> quantity, newQuantity |-> quantity,
             productName |-> c.item.name]
      [] c.op = "updateStock" ->
            [eventType |-> IF c.qty > c.item.quantity THEN STOCK_ADDED
                           ELSE STOCK_REDUCED,
             productCode |-> c.code, previousQuantity |-> c.item.quantity,
             newQuantity |-> c.qty, productName |-> c.item.name]
      [] c.op = "createItem" ->
            [eventType |-> STOCK_ADDED, productCode |-> c.code,
             previousQuantity |-> 0, newQuantity |-> c.qty,
             productName |-> NameOf(c.code)]
      [] OTHER -> NoEvent

\* the events with updateStock reporting an unchanged quantity as added
MutStockEventOfEqualAdded(c) ==
    CASE c.op = "deductStock" ->
            LET quantity == c.item.quantity - c.qty IN
            [eventType |-> STOCK_REDUCED, productCode |-> c.code,
             previousQuantity |-> quantity + c.qty, newQuantity |-> quantity,
             productName |-> c.item.name]
      [] c.op = "updateStock" ->
            [eventType |-> IF c.qty >= c.item.quantity THEN STOCK_ADDED
                           ELSE STOCK_REDUCED,
             productCode |-> c.code, previousQuantity |-> c.item.quantity,
             newQuantity |-> c.qty, productName |-> c.item.name]
      [] c.op = "createItem" ->
            [eventType |-> STOCK_ADDED, productCode |-> c.code,
             previousQuantity |-> 0, newQuantity |-> c.qty,
             productName |-> NameOf(c.code)]
      [] OTHER -> NoEvent

\* the StockUpdateEvent each operation builds after its write
StockEventOf(c) ==
    CASE c.op = "deductStock" ->
            LET quantity == c.item.quantity - c.qty IN
            [eventType |-> STOCK_REDUCED, productCode |-> c.code,
             previousQuantity |-> quantity + c.qty, newQuantity |-> quantity,
             productName |-> c.item.name]
      [] c.op = "updateStock" ->
            [eventType |-> IF c.qty > c.item.quantity THEN STOCK_ADDED
                           ELSE STOCK_REDUCED,
             productCode |-> c.code, previousQuantity |-> c.item.quantity,
             newQuantity |-> c.qty, productName |-> c.item.name]
      [] c.op = "createItem" ->
            [eventType |-> STOCK_ADDED, productCode |-> c.code,
             previousQuantity |-> 0, newQuantity |-> c.qty,
             productName |-> NameOf(c.code)]
      [] OTHER -> NoEvent

\* the call after its write completed: the event is built; a createItem whose
\* insert hit the unique index of productCode rejects
AfterWrite(c, l) ==
    IF c.op = "createItem" /\ c.code \in DOMAIN l
    THEN Throw(c, "MongoServerError", "E11000 duplicate key error")
    ELSE [c EXCEPT !.pc = "publish", !.wrote = c.wrote + 1,
                   !.interfered = FALSE, !.event = StockEventOf(c)]

\* the routing key publishStockUpdateEvent publishes an event under
RoutingKeyOf(event) == "inventory.stock." \o ToLowerCase(event.eventType)

\* a publishStockUpdateEvent whose catch only logs
MutPublishStockUpdateEventSwallows(c, delivered) ==
    LET handedOver == [c EXCEPT !.handed = c.handed + 1,
                                !.exchange = INVENTORY,
                                !.routingKey = RoutingKeyOf(c.event)] IN
    IF delivered THEN Return([handedOver EXCEPT !.emitted = handedOver.emitted + 1])
    ELSE Return(handedOver)

\* publishStockUpdateEvent: hands the event to RabbitMQService.publish;
\* delivered tells whether publish returned or threw
publishStockUpdateEvent(c, delivered) ==
    LET handedOver == [c EXCEPT !.handed = c.handed + 1,
                                !.exchange = INVENTORY,
                                !.routingKey = RoutingKeyOf(c.event)] IN
    IF delivered THEN Return([handedOver EXCEPT !.emitted = handedOver.emitted + 1])
    ELSE Throw(handedOver, "Error", "Channel closed")

\* one step of a service call: the awaited ledger access or publish, then the
\* code up to the next await. productCode is the candidate that
\* generateUniqueProductCode sampled, delivered the outcome of publish
StepCall(c, l, productCode, delivered) ==
    CASE c.pc = "find" /\ c.op = "checkStock" ->
            Return([c EXCEPT !.result = checkStock(l, c.code, c.qty)])
      [] c.pc = "find" /\ c.op = "deductStock" -> deductStockFind(c, l)
      [] c.pc = "find" /\ c.op = "updateStock" -> updateStockFind(c, l)
      [] c.pc = "find" /\ c.op = "createItem" -> createItemFind(c, l, productCode)
      [] c.pc = "write" -> AfterWrite(c, l)
      [] c.pc = "publish" -> publishStockUpdateEvent(c, delivered)
      [] OTHER -> c

\* the ledger after that step
StepLedger(c, l) == IF c.pc = "write" THEN WriteLedger(c, l) ELSE l

\* the step sends a write to the ledger
Writes(c, l) ==
    /\ c.pc = "write"
    /\ \/ c.op = "updateStock"
       \/ c.op = "deductStock" /\ c.qty # 0
       \/ c.op = "createItem" /\ c.code \notin DOMAIN l

\* bookkeeping: another call wrote item code between c's read and c's write
Mark(c, written, code) ==
    IF written /\ c.pc = "write" /\ c.code = code
    THEN [c EXCEPT !.interfered = TRUE] ELSE c

---------------------------------------------------------------------------
(* RabbitMQService: the connection manager. conn holds the fields          *)
(* isConnecting, connection and channel (0 = unset, else the id of a       *)
(* broker connection and of the one channel created on it), the broker     *)
(* connections (links) and the asynchronous calls in progress (tasks);     *)
(* lastEntry records what the latest connectWithRetry call did,            *)
(* lastPublish how the latest publish() call ended, broker the exchanges,  *)
(* queues and bindings declared at the broker.                             *)

maxRetries == 5

ConnIds == 1 .. MaxConns
TaskIds == 1 .. MaxTasks

\* The broker's topology: exchanges, queues and bindings by their declared
\* properties.
NoTopology == [exchanges |-> {}, queues |-> {}, bindings |-> {}]

\* the declarations the channel is asked for
AssertExchangeOp(name, type, durable) ==
    [op |-> "assertExchange", name |-> name, type |-> type, durable |-> durable,
     exchange |-> "", key |-> ""]
AssertQueueOp(name, durable) ==
    [op |-> "assertQueue", name |-> name, type |-> "", durable |-> durable,
     exchange |-> "", key |-> ""]
BindQueueOp(queue, exchange, key) ==
    [op |-> "bindQueue", name |-> queue, type |-> "", durable |-> TRUE,
     exchange |-> exchange, key |-> key]

\* one declaration at the broker: declaring again with equal properties
\* changes nothing, with other properties it is refused; a binding needs
\* its queue and its exchange
Declare(top, d) ==
    IF d.op = "assertExchange"
    THEN LET x == [name |-> d.name, type |-> d.type, durable |-> d.durable]
             same == {e \in top.exchanges : e.name = d.name}
         IN IF same = {} THEN [ok |-> TRUE, top |-> [top EXCEPT !.exchanges = @ \cup {x}]]
            ELSE [ok |-> same = {x}, top |-> top]
    ELSE IF d.op = "assertQueue"
    THEN LET q == [name |-> d.name, durable |-> d.durable]
             same == {e \in top.queues : e.name = d.name}
         IN IF same = {} THEN [ok |-> TRUE, top |-> [top EXCEPT !.queues = @ \cup {q}]]
            ELSE [ok |-> same = {q}, top |-> top]
    ELSE LET b == [queue |-> d.name, exchange |-> d.exchange, key |-> d.key]
         IN IF /\ \E q \in top.queues : q.name = d.name
               /\ \E e \in top.exchanges : e.name = d.exchange
            THEN [ok |-> TRUE, top |-> [top EXCEPT !.bindings = @ \cup {b}]]
            ELSE [ok |-> FALSE, top |-> top]

\* the awaited declarations one after the other, up to the first refused
RECURSIVE DeclareAll(_, _)
DeclareAll(top, ds) ==
    IF ds = <<>> THEN [ok |-> TRUE, top |-> top]
    ELSE LET r == Declare(top, Head(ds))
         IN IF r.ok THEN DeclareAll(r.top, Tail(ds)) ELSE r

\* setupExchanges that declares the queues as transient ones
MutSetupExchangesTransient ==
    << AssertExchangeOp(INVENTORY, "topic", TRUE),
       AssertQueueOp(ORDER_STOCK_CHECK, FALSE),
       AssertQueueOp(ORDER_STOCK_DEDUCT, FALSE),
       BindQueueOp(ORDER_STOCK_CHECK, INVENTORY, "inventory.stock.check"),
       BindQueueOp(ORDER_STOCK_DEDUCT, INVENTORY, "inventory.stock.deduct") >>

\* setupExchanges
setupExchanges ==
    << AssertExchangeOp(INVENTORY, "topic", TRUE),
       AssertQueueOp(ORDER_STOCK_CHECK, TRUE),
       AssertQueueOp(ORDER_STOCK_DEDUCT, TRUE),
       BindQueueOp(ORDER_STOCK_CHECK, INVENTORY, "inventory.stock.check"),
       BindQueueOp(ORDER_STOCK_DEDUCT, INVENTORY, "inventory.stock.deduct") >>

\* connect(): the queue and binding declarations after setupExchanges
connectDeclarations ==
    << AssertQueueOp(ORDER_STOCK_CHECK, TRUE),
       AssertQueueOp(ORDER_STOCK_DEDUCT, TRUE),
       BindQueueOp(ORDER_STOCK_CHECK, INVENTORY, "inventory.stock.check"),
       BindQueueOp(ORDER_STOCK_DEDUCT, INVENTORY, "inventory.stock.deduct") >>

\* declared: what was declared through the channel of the link
NoLink == [conn |-> "none", chan |-> "none", consumers |-> {}, declared |-> NoTopology]
NoTask ==
    [kind |-> "none", pc |-> "idle", retryCount |-> 0, stage |-> 0, ref |-> 0,
     queue |-> ""]

\* the steps of connect(), from amqplib connect(url) to setupSubscriptions
ConnectPcs == {"connecting", "channel", "exchanges", "queues", "subscriptions"}

InConnect(task) == task.pc \in ConnectPcs

ChanState(st, id) == IF id = 0 THEN "none" ELSE st.links[id].chan
ConnState(st, id) == IF id = 0 THEN "none" ELSE st.links[id].conn

EndTask(st, t) == [st EXCEPT !.tasks[t] = NoTask]

\* what the latest publish() call to end did: how it ended, how many times it
\* called channel.publish, how many reconnects it made and whether a channel
\* took the message
NoPublish == [outcome |-> "none", attempts |-> 0, reconnects |-> 0, handed |-> FALSE]

\* publish() ends: it returns, or throws to its caller
PublishEnded(st, t, outcome, attempts, handed) ==
    EndTask([st EXCEPT !.lastPublish =
                [outcome |-> outcome, attempts |-> attempts,
                 reconnects |-> IF st.tasks[t].stage = 2 THEN 1 ELSE 0,
                 handed |-> handed]], t)

FreeTasks(st) == {t \in TaskIds : st.tasks[t].kind = "none"}

\* a connection id no handle refers to any more
FreeConns(st) ==
    {id \in ConnIds :
        /\ st.links[id].conn \in {"none", "closed"}
        /\ id # st.connection /\ id # st.channel
        /\ \A t \in TaskIds : st.tasks[t].ref # id}

RECURSIVE AfterConnectWithRetry(_, _), TryPublish(_, _), StartCleanup(_, _)
RECURSIVE RetryPublish(_, _)
RECURSIVE CleanupConnection(_, _), AfterCleanup(_, _)
RECURSIVE EnterConnectWithRetry(_, _, _)

\* connectWithRetry without the isConnecting guard
MutEnterConnectWithRetryNoFlag(st, t, retryCount) ==
    [st EXCEPT !.isConnecting = TRUE,
               !.lastEntry = "started",
               !.tasks[t].pc = "connecting",
               !.tasks[t].retryCount = retryCount]

\* connectWithRetry(retryCount) up to await this.connect(): a no-op while
\* isConnecting, else the flag is set and amqplib connect(url) is issued
EnterConnectWithRetry(st, t, retryCount) ==
    IF st.isConnecting
    THEN AfterConnectWithRetry([st EXCEPT !.lastEntry = "noop"], t)
    ELSE [st EXCEPT !.isConnecting = TRUE,
                    !.lastEntry = "started",
                    !.tasks[t].pc = "connecting",
                    !.tasks[t].retryCount = retryCount]

\* subscribe: this.channel.assertQueue(queue) in the try block; it throws
\* when this.channel is unset or not open, and subscribe rethrows
TrySubscribe(st, t) ==
    IF ChanState(st, st.channel) = "open"
    THEN [st EXCEPT !.tasks[t].pc = "sub_assert", !.tasks[t].ref = st.channel]
    ELSE EndTask(st, t)

\* the caller of connectWithRetry once it returned: onModuleInit and
\* handleReconnect are done; publish and subscribe go on (stage 1: the
\* no-channel branch, stage 2: the retry in the catch block of publish)
AfterConnectWithRetry(st, t) ==
    LET task == st.tasks[t] IN
    IF task.kind = "publish" /\ task.stage = 1
    THEN IF st.channel # 0 THEN TryPublish(st, t)
         ELSE PublishEnded(st, t, "threw", 0, FALSE)
    ELSE IF task.kind = "publish" /\ task.stage = 2
    THEN RetryPublish(st, t)
    ELSE IF task.kind = "subscribe" /\ task.stage = 1
    THEN TrySubscribe(st, t)
    ELSE EndTask(st, t)

\* a publish whose retry swallows the error of the second channel publish
MutRetryPublishSwallows(st, t) ==
    IF st.channel = 0 THEN PublishEnded(st, t, "returned", 1, FALSE)
    ELSE PublishEnded(st, t, "returned", 2, ChanState(st, st.channel) = "open")

\* publish: the catch block after handleReconnect returned: the message is
\* published again when this.channel is set, and a throw goes to the caller
RetryPublish(st, t) ==
    IF st.channel = 0 THEN PublishEnded(st, t, "returned", 1, FALSE)
    ELSE IF ChanState(st, st.channel) = "open"
    THEN PublishEnded(st, t, "returned", 2, TRUE)
    ELSE PublishEnded(st, t, "threw", 2, FALSE)

\* publish: this.channel.publish in the try block; when it throws,
\* handleReconnect is awaited
TryPublish(st, t) ==
    IF ChanState(st, st.channel) = "open"
    THEN PublishEnded(st, t, "returned", 1, TRUE)
    ELSE StartCleanup([st EXCEPT !.tasks[t].stage = 2], t)

\* cleanup: channel.close() when this.channel is set; close() throws on a
\* channel that is closing or closed and the catch ends cleanup
StartCleanup(st, t) ==
    IF st.channel # 0
    THEN IF ChanState(st, st.channel) = "open"
         THEN [st EXCEPT !.links[st.channel].chan = "closing",
                         !.tasks[t].pc = "cleanup_ch",
                         !.tasks[t].ref = st.channel]
         ELSE AfterCleanup(st, t)
    ELSE CleanupConnection(st, t)

\* cleanup: connection.close() when this.connection is set
CleanupConnection(st, t) ==
    IF st.connection # 0 /\ ConnState(st, st.connection) = "open"
    THEN [st EXCEPT !.links[st.connection].conn = "closing",
                    !.tasks[t].pc = "cleanup_conn",
                    !.tasks[t].ref = st.connection]
    ELSE AfterCleanup(st, t)

\* a handleReconnect that only cleans up
MutAfterCleanupNoReconnect(st, t) == EndTask([st EXCEPT !.tasks[t].ref = 0], t)

\* handleReconnect after cleanup
AfterCleanup(st, t) == EnterConnectWithRetry([st EXCEPT !.tasks[t].ref = 0], t, 0)

\* the catch block of connectWithRetry
ConnectFailed(st, t) ==
    IF st.tasks[t].retryCount < maxRetries
    THEN [st EXCEPT !.isConnecting = FALSE, !.tasks[t].pc = "delay",
                    !.tasks[t].ref = 0]
    ELSE AfterConnectWithRetry([st EXCEPT !.isConnecting = FALSE,
                                          !.lastEntry = "exhausted",
                                          !.tasks[t].ref = 0], t)

\* connect(): amqplib connect(url) resolved with connection id; the error
\* and close handlers are registered and createChannel is issued
ConnectResolved(st, t, id) ==
    [st EXCEPT !.links[id] = [NoLink EXCEPT !.conn = "open"],
               !.connection = id,
               !.tasks[t].pc = "channel",
               !.tasks[t].ref = id]

\* connect(): createChannel resolved, or rejected on a connection that is
\* no longer open
ChannelResolved(st, t) ==
    LET id == st.tasks[t].ref IN
    IF ConnState(st, id) = "open"
    THEN [st EXCEPT !.links[id].chan = "open", !.channel = id,
                    !.tasks[t].pc = "exchanges"]
    ELSE ConnectFailed(st, t)

\* connect(): setupExchanges, then the queue and binding declarations
Declared(st, t, ds, next) ==
    LET r == DeclareAll(st.broker, ds) IN
    IF ChanState(st, st.channel) = "open" /\ r.ok
    THEN [st EXCEPT !.broker = r.top,
                    !.links[st.channel].declared =
                        DeclareAll(@, ds).top,
                    !.tasks[t].pc = next]
    ELSE ConnectFailed(st, t)

\* a setupSubscriptions that returns after its first consume
MutSubscribedCheckOnly(st, t) ==
    IF ChanState(st, st.channel) = "open"
    THEN AfterConnectWithRetry(
             [st EXCEPT !.links[st.channel].consumers = {ORDER_STOCK_CHECK},
                        !.isConnecting = FALSE,
                        !.tasks[t].ref = 0], t)
    ELSE ConnectFailed(st, t)

\* connect(): setupSubscriptions registered both consumers; connect returns
\* and connectWithRetry clears the flag
Subscribed(st, t) ==
    IF ChanState(st, st.channel) = "open"
    THEN AfterConnectWithRetry(
             [st EXCEPT !.links[st.channel].consumers = Queues,
                        !.isConnecting = FALSE,
                        !.tasks[t].ref = 0], t)
    ELSE ConnectFailed(st, t)

\* cleanup: channel.close() settled
ChannelClosedByCleanup(st, t) ==
    LET id == st.tasks[t].ref IN
    IF ChanState(st, id) = "closing"
    THEN CleanupConnection([st EXCEPT !.links[id].chan = "closed",
                                      !.links[id].consumers = {},
                                      !.links[id].declared = NoTopology], t)
    ELSE AfterCleanup(st, t)

\* the broker side of a connection that went down
Down(link) ==
    [conn |-> "closed",
     chan |-> IF link.chan = "none" THEN "none" ELSE "closed",
     consumers |-> {}, declared |-> NoTopology]

\* the first step of a call: onModuleInit, handleReconnect, publish
Started(st, t) ==
    LET task == st.tasks[t] IN
    CASE task.kind = "init" -> EnterConnectWithRetry(st, t, 0)
      [] task.kind = "reconnect" -> StartCleanup(st, t)
      [] task.kind = "publish" ->
            IF st.channel = 0
            THEN EnterConnectWithRetry([st EXCEPT !.tasks[t].stage = 1], t, 0)
            ELSE TryPublish(st, t)
      [] task.kind = "subscribe" ->
            IF st.channel = 0
            THEN EnterConnectWithRetry([st EXCEPT !.tasks[t].stage = 1], t, 0)
            ELSE TrySubscribe(st, t)
      [] OTHER -> st

\* subscribe: assertQueue settled; this.channel.consume is issued
QueueAsserted(st, t) ==
    IF /\ ChanState(st, st.tasks[t].ref) = "open" /\ ChanState(st, st.channel) = "open"
       /\ Declare(st.broker, AssertQueueOp(st.tasks[t].queue, TRUE)).ok
    THEN [st EXCEPT !.broker = Declare(@, AssertQueueOp(st.tasks[t].queue, TRUE)).top,
                    !.tasks[t].pc = "sub_consume", !.tasks[t].ref = st.channel]
    ELSE EndTask(st, t)

\* subscribe: consume settled; the consumer of the queue is registered
Consuming(st, t) ==
    LET id == st.tasks[t].ref IN
    IF ChanState(st, id) = "open"
    THEN EndTask([st EXCEPT !.links[id].consumers = @ \cup {st.tasks[t].queue}], t)
    ELSE EndTask(st, t)

\* connection.on('error'/'close', ...): the listener calls handleReconnect,
\* which runs up to its first pending await
HandleEvent(st) ==
    LET free == FreeTasks(st)
        t == CHOOSE u \in free : \A v \in free : u <= v
    IN Started([st EXCEPT !.tasks[t] =
                   [NoTask EXCEPT !.kind = "reconnect", !.pc = "start"]], t)

\* the connection emits n events, one listener call after the other
Emit(st, n) == IF n = 1 THEN HandleEvent(st) ELSE HandleEvent(HandleEvent(st))

\* cleanup: connection.close() settled; the connection emits 'close' and the
\* awaiting cleanup goes on
ConnectionClosedByCleanup(st, t) ==
    LET id == st.tasks[t].ref IN
    IF ConnState(st, id) = "closing"
    THEN Emit(AfterCleanup([st EXCEPT !.links[id] = Down(st.links[id])], t), 1)
    ELSE AfterCleanup(st, t)

---------------------------------------------------------------------------
(* RabbitMQService.publish as the service calls see it. On an open channel *)
(* the message is handed to the channel. On a closed or missing channel    *)
(* publish reconnects and retries once: it returns when the reconnect gave *)
(* a usable channel and throws otherwise.                                  *)

PublishOutcomes(open) == IF open THEN {TRUE} ELSE {TRUE, FALSE}

---------------------------------------------------------------------------
(* RPC responders: setupSubscriptions                                      *)

\* msg.properties and the queue the request was routed to
ReplyToOf(m) == "amq.reply." \o m
CorrelationIdOf(m) == "corr-" \o m
QueueOf(m) == IF m = "m1" THEN ORDER_STOCK_CHECK ELSE ORDER_STOCK_DEDUCT

Item(productCode, quantity) == [productCode |-> productCode, quantity |-> quantity]
StockItems == [productCode : Codes, quantity : 1 .. MaxQty]
ItemSeqs == UNION {[1 .. n -> StockItems] : n \in 0 .. MaxItems}

\* msg.content: a JSON text that does not parse, a JSON object without an
\* items array, or {items: [...]}
Contents ==
    {[kind |-> "badjson", items |-> <<>>], [kind |-> "noitems", items |-> <<>>]}
        \cup {[kind |-> "items", items |-> s] : s \in ItemSeqs}

ParseErrorMessage(content) ==
    IF content.kind = "badjson" THEN "Unexpected token in JSON"
    ELSE "Cannot read properties of undefined (reading 'map')"

EmptyMap == [c \in {} |-> 0]

NoRun ==
    [pc |-> "idle", queue |-> "", msg |-> "", content |-> [kind |-> "", items |-> <<>>],
     checks |-> <<>>, tasks |-> <<>>, replies |-> <<>>, attempts |-> 0,
     acked |-> FALSE, caught |-> FALSE, replaced |-> FALSE]

\* the callback of h awaits the ledger (Promise.all of checkStock or of
\* deductStock): the event loop runs other callbacks, a reconnect among them
Awaiting(h) == h.pc \in {"checking", "deducting"}

\* stockCheckResults of the stock-check consumer
StockCheckResults(h) ==
    [i \in 1 .. Len(h.checks) |->
        [productCode |-> h.content.items[i].productCode,
         available |-> h.checks[i].available,
         message |-> h.checks[i].message,
         currentStock |-> h.checks[i].currentStock]]

RECURSIVE UnavailableMessages(_)
UnavailableMessages(results) ==
    IF Len(results) = 0 THEN <<>>
    ELSE (IF ~results[1].available THEN <<results[1].message>> ELSE <<>>)
             \o UnavailableMessages(Tail(results))

\* the reduce over stockCheckResults: a later entry of a code overwrites
AvailableStock(results) ==
    [c \in {results[i].productCode : i \in 1 .. Len(results)} |->
        LET last == CHOOSE i \in 1 .. Len(results) :
                        /\ results[i].productCode = c
                        /\ \A j \in 1 .. Len(results) :
                               results[j].productCode = c => j <= i
        IN results[last].currentStock]

\* an every() that is content with one available item
MutEverySome(results) == \E i \in 1 .. Len(results) : results[i].available

Every(results) == \A i \in 1 .. Len(results) : results[i].available

StockCheckResponse(h) ==
    LET results == StockCheckResults(h) IN
    [success |-> Every(results),
     message |-> IF Every(results) THEN "All items in stock"
                 ELSE Join(UnavailableMessages(results), "; "),
     availableStock |-> AvailableStock(results),
     details |-> results,
     deductions |-> <<>>]

StockDeductResponse(h) ==
    [success |-> TRUE, message |-> "Stock deducted successfully",
     availableStock |-> EmptyMap, details |-> <<>>,
     deductions |-> [i \in 1 .. Len(h.content.items) |->
                        Item(h.content.items[i].productCode,
                             h.content.items[i].quantity)]]

ErrorResponse(h, message) ==
    [success |-> FALSE,
     message |-> IF h.queue = ORDER_STOCK_DEDUCT /\ message = ""
                 THEN "Failed to deduct stock" ELSE message,
     availableStock |-> EmptyMap, details |-> <<>>, deductions |-> <<>>]

\* a reply under a correlation token of the responder's own
MutReplyMessageOwnToken(m, body) ==
    [exchange |-> "", routingKey |-> ReplyToOf(m),
     correlationId |-> "corr-m1", body |-> body]

\* this.channel.publish('', msg.properties.replyTo, body, {correlationId})
ReplyMessage(m, body) ==
    [exchange |-> "", routingKey |-> ReplyToOf(m),
     correlationId |-> CorrelationIdOf(m), body |-> body]

\* a catch block that logs and rethrows instead of replying
MutCatchRethrow(h, message, open) ==
    [h EXCEPT !.pc = "rejected", !.caught = TRUE]

\* the catch block: the error reply is published; the publish throws on a
\* closed channel and the callback rejects, the message unacknowledged
Catch(h, message, open) ==
    IF open
    THEN [h EXCEPT !.pc = "ack", !.caught = TRUE, !.attempts = h.attempts + 1,
                   !.replies = Append(h.replies,
                                      ReplyMessage(h.msg, ErrorResponse(h, message)))]
    ELSE [h EXCEPT !.pc = "rejected", !.caught = TRUE, !.attempts = h.attempts + 1]

\* the reply of the try block: published, or the publish throws into catch
Respond(h, body, open) ==
    IF open
    THEN [h EXCEPT !.pc = "ack", !.attempts = h.attempts + 1,
                   !.replies = Append(h.replies, ReplyMessage(h.msg, body))]
    ELSE Catch([h EXCEPT !.attempts = h.attempts + 1], "Channel closed", open)

\* the deduct consumer once every deductStock of the batch returned
AfterDeducts(h, open) == Respond(h, StockDeductResponse(h), open)

\* the deduct consumer going on to deduct whatever the checks said
MutAfterChecksNoGuard(h, open) ==
    IF h.queue = ORDER_STOCK_CHECK THEN Respond(h, StockCheckResponse(h), open)
    ELSE IF Len(h.content.items) = 0 THEN AfterDeducts(h, open)
    ELSE [h EXCEPT !.pc = "deducting",
                   !.tasks = [i \in 1 .. Len(h.content.items) |->
                                 NewCall("deductStock",
                                         h.content.items[i].productCode,
                                         h.content.items[i].quantity)]]

\* either consumer once Promise.all of the checkStock calls resolved
AfterChecks(h, open) ==
    IF h.queue = ORDER_STOCK_CHECK THEN Respond(h, StockCheckResponse(h), open)
    ELSE IF ~(\A i \in 1 .. Len(h.checks) : h.checks[i].available)
    THEN Catch(h, "Some items are not available in requested quantity", open)
    ELSE IF Len(h.content.items) = 0 THEN AfterDeducts(h, open)
    ELSE [h EXCEPT !.pc = "deducting",
                   !.tasks = [i \in 1 .. Len(h.content.items) |->
                                 NewCall("deductStock",
                                         h.content.items[i].productCode,
                                         h.content.items[i].quantity)]]

\* a consumer that acknowledges the message as it arrives
MutOnMessageAckFirst(m, queue, content, open) ==
    LET h == [NoRun EXCEPT !.queue = queue, !.msg = m, !.content = content,
                           !.acked = TRUE] IN
    IF content.kind # "items" THEN Catch(h, ParseErrorMessage(content), open)
    ELSE IF Len(content.items) = 0 THEN AfterChecks(h, open)
    ELSE [h EXCEPT !.pc = "checking",
                   !.checks = [i \in 1 .. Len(content.items) |-> NoResult]]

\* the consumer callback from the delivery to its first await
OnMessage(m, queue, content, open) ==
    LET h == [NoRun EXCEPT !.queue = queue, !.msg = m, !.content = content] IN
    IF content.kind # "items" THEN Catch(h, ParseErrorMessage(content), open)
    ELSE IF Len(content.items) = 0 THEN AfterChecks(h, open)
    ELSE [h EXCEPT !.pc = "checking",
                   !.checks = [i \in 1 .. Len(content.items) |-> NoResult]]

\* the callback when one checkStock of its batch resolves
OnCheck(h, i, l, open) ==
    LET item == h.content.items[i]
        h2 == [h EXCEPT !.checks[i] = checkStock(l, item.productCode, item.quantity)]
    IN IF \A j \in 1 .. Len(h2.checks) : h2.checks[j].status = "ok"
       THEN AfterChecks(h2, open) ELSE h2

\* the callback when deductStock i of its batch took the step to t: the
\* first rejection rejects Promise.all, the last return resolves it
OnDeduct(h, i, t, code, written, open) ==
    LET h2 == [h EXCEPT !.tasks = [j \in 1 .. Len(h.tasks) |->
                                      IF j = i THEN t
                                      ELSE Mark(h.tasks[j], written, code)]]
    IN IF h.pc # "deducting" THEN h2
       ELSE IF t.pc = "threw" THEN Catch(h2, t.result.message, open)
       ELSE IF \A j \in 1 .. Len(h2.tasks) : h2.tasks[j].pc = "returned"
       THEN AfterDeducts(h2, open)
       ELSE h2

\* an acknowledgment that throws while the channel still takes the error
\* reply of the catch block
MutOnAckCatchPublishes(h, open) ==
    IF open THEN [h EXCEPT !.pc = "done", !.acked = TRUE]
    ELSE IF h.caught THEN [h EXCEPT !.pc = "rejected"]
    ELSE Catch(h, "Channel closed", TRUE)

\* this.channel.ack(msg) after the reply: throws on a closed channel, from
\* the try block into catch, from the catch block out of the callback
OnAck(h, open) ==
    IF open THEN [h EXCEPT !.pc = "done", !.acked = TRUE]
    ELSE IF h.caught THEN [h EXCEPT !.pc = "rejected"]
    ELSE Catch(h, "Channel closed", open)

---------------------------------------------------------------------------
(* Ledger, orchestrator and responders: actions                            *)

Deliver(m, queue, content) ==
    /\ rpc.pc = "idle"
    /\ channelOpen
    /\ rpc' = OnMessage(m, queue, content, channelOpen)
    /\ UNCHANGED <<ledger, direct, channelOpen, conn>>

CheckItem(i) ==
    /\ rpc.pc = "checking"
    /\ i \in 1 .. Len(rpc.checks)
    /\ rpc.checks[i].status = "pending"
    /\ rpc' = OnCheck(rpc, i, ledger, channelOpen)
    /\ UNCHANGED <<ledger, direct, channelOpen, conn>>

DeductItem(i) ==
    /\ rpc.pc # "idle"
    /\ i \in 1 .. Len(rpc.tasks)
    /\ Running(rpc.tasks[i])
    /\ \E delivered \in PublishOutcomes(channelOpen) :
         LET t == rpc.tasks[i]
             open == IF t.pc = "publish" THEN delivered ELSE channelOpen
         IN /\ ledger' = StepLedger(t, ledger)
            /\ channelOpen' = open
            /\ rpc' = OnDeduct(rpc, i, StepCall(t, ledger, t.code, delivered),
                               t.code, Writes(t, ledger), open)
            /\ direct' = Mark(direct, Writes(t, ledger), t.code)
    /\ UNCHANGED conn

Ack ==
    /\ rpc.pc = "ack"
    /\ rpc' = OnAck(rpc, channelOpen)
    /\ UNCHANGED <<ledger, direct, channelOpen, conn>>

\* the broker delivers an unacknowledged message again
Redeliver ==
    /\ rpc.pc = "rejected"
    /\ channelOpen
    /\ \A i \in 1 .. Len(rpc.tasks) : ~Running(rpc.tasks[i])
    /\ rpc' = OnMessage(rpc.msg, rpc.queue, rpc.content, channelOpen)
    /\ UNCHANGED <<ledger, direct, channelOpen, conn>>

\* the callback is over and so are the deductStock calls it started
Finish ==
    /\ rpc.pc = "done"
    /\ \A i \in 1 .. Len(rpc.tasks) : ~Running(rpc.tasks[i])
    /\ rpc' = NoRun
    /\ UNCHANGED <<ledger, direct, channelOpen, conn>>

\* InventoryController, or another caller of the service
DirectCall(op, code, qty) ==
    /\ direct.pc = "idle"
    /\ op = "createItem" => qty >= 1
    /\ code = "" => op = "createItem"
    /\ direct' = NewCall(op, code, qty)
    /\ UNCHANGED <<ledger, rpc, channelOpen, conn>>

DirectStep ==
    /\ Running(direct)
    /\ \E delivered \in PublishOutcomes(channelOpen), productCode \in Codes :
         /\ \/ direct.pc = "find" /\ direct.op = "createItem" /\ direct.code = ""
            \/ productCode = CHOOSE c \in Codes : TRUE
         /\ ledger' = StepLedger(direct, ledger)
         /\ channelOpen' = IF direct.pc = "publish" THEN delivered ELSE channelOpen
         /\ direct' = StepCall(direct, ledger, productCode, delivered)
         /\ rpc' = [rpc EXCEPT !.tasks = [j \in 1 .. Len(rpc.tasks) |->
                        Mark(rpc.tasks[j], Writes(direct, ledger), direct.code)]]
    /\ UNCHANGED conn

DirectEnd ==
    /\ Ended(direct)
    /\ direct' = NoCall
    /\ UNCHANGED <<ledger, rpc, channelOpen, conn>>

\* the broker or the network closes the channel
ChannelClosed ==
    /\ channelOpen
    /\ channelOpen' = FALSE
    /\ UNCHANGED <<ledger, direct, rpc, conn>>

\* the connection manager reconnected: this.channel is a new open channel,
\* another one than the channel that delivered the message of a callback
\* that awaits the ledger
ChannelReopened ==
    /\ ~channelOpen
    /\ channelOpen' = TRUE
    /\ rpc' = IF Awaiting(rpc) THEN [rpc EXCEPT !.replaced = TRUE] ELSE rpc
    /\ UNCHANGED <<ledger, direct, conn>>

\* the service as constructed: onModuleInit is about to run
InitConn ==
    [isConnecting |-> FALSE, connection |-> 0, channel |-> 0, lastEntry |-> "none",
     lastPublish |-> NoPublish,
     broker |-> NoTopology,
     links |-> [id \in ConnIds |-> NoLink],
     tasks |-> [t \in TaskIds |->
                  IF t = 1 THEN [NoTask EXCEPT !.kind = "init", !.pc = "start"]
                  ELSE NoTask]]

Init ==
    /\ ledger = [c \in {"A"} |-> [name |-> NameOf(c), quantity |-> MaxQty]]
    /\ direct = NoCall
    /\ rpc = NoRun
    /\ channelOpen = TRUE
    /\ conn = InitConn

Next ==
    \/ \E m \in Msgs, content \in Contents : Deliver(m, QueueOf(m), content)
    \/ \E i \in 1 .. MaxItems : CheckItem(i)
    \/ \E i \in 1 .. MaxItems : DeductItem(i)
    \/ Ack
    \/ Redeliver
    \/ Finish
    \/ \E op \in {"createItem", "updateStock", "deductStock", "checkStock"},
          code \in Codes \cup {""}, qty \in Qtys : DirectCall(op, code, qty)
    \/ DirectStep
    \/ DirectEnd
    \/ ChannelClosed
    \/ ChannelReopened

Spec == Init /\ [][Next]_vars

---------------------------------------------------------------------------
(* Connection manager: actions                                             *)

Others == <<ledger, direct, rpc, channelOpen>>

TaskStart(t) ==
    /\ conn.tasks[t].pc = "start"
    /\ conn' = Started(conn, t)
    /\ UNCHANGED Others

\* amqplib connect(url) resolves: the broker accepted the connection
ConnectSucceeds(t) ==
    /\ conn.tasks[t].pc = "connecting"
    /\ FreeConns(conn) # {}
    /\ LET id == CHOOSE i \in FreeConns(conn) : \A j \in FreeConns(conn) : i <= j
       IN conn' = ConnectResolved(conn, t, id)
    /\ UNCHANGED Others

\* amqplib connect(url) rejects: the broker is unreachable
ConnectFails(t) ==
    /\ conn.tasks[t].pc = "connecting"
    /\ conn' = ConnectFailed(conn, t)
    /\ UNCHANGED Others

CreateChannelSettles(t) ==
    /\ conn.tasks[t].pc = "channel"
    /\ conn' = ChannelResolved(conn, t)
    /\ UNCHANGED Others

ExchangesSettle(t) ==
    /\ conn.tasks[t].pc = "exchanges"
    /\ conn' = Declared(conn, t, setupExchanges, "queues")
    /\ UNCHANGED Others

QueuesSettle(t) ==
    /\ conn.tasks[t].pc = "queues"
    /\ conn' = Declared(conn, t, connectDeclarations, "subscriptions")
    /\ UNCHANGED Others

SubscriptionsSettle(t) ==
    /\ conn.tasks[t].pc = "subscriptions"
    /\ conn' = Subscribed(conn, t)
    /\ UNCHANGED Others

\* the retryDelay timer fires
RetryTimer(t) ==
    /\ conn.tasks[t].pc = "delay"
    /\ conn' = EnterConnectWithRetry(conn, t, conn.tasks[t].retryCount + 1)
    /\ UNCHANGED Others

ChannelCloseSettles(t) ==
    /\ conn.tasks[t].pc = "cleanup_ch"
    /\ conn' = ChannelClosedByCleanup(conn, t)
    /\ UNCHANGED Others

ConnectionCloseSettles(t) ==
    /\ conn.tasks[t].pc = "cleanup_conn"
    /\ ConnState(conn, conn.tasks[t].ref) = "closing" => FreeTasks(conn) # {}
    /\ conn' = ConnectionClosedByCleanup(conn, t)
    /\ UNCHANGED Others

\* the broker or the network ends connection id: the connection emits
\* 'close', after 'error' when n = 2
BrokerDrops(id, n) ==
    /\ conn.links[id].conn \in {"open", "closing"}
    /\ Cardinality(FreeTasks(conn)) >= n
    /\ conn' = Emit([conn EXCEPT !.links[id] = Down(conn.links[id])], n)
    /\ UNCHANGED Others

\* a caller invokes publish(exchange, routingKey, message): the HTTP routes
\* are served once onModuleInit has returned, the consumers run once they
\* are registered
PublishCall ==
    /\ \/ \A u \in TaskIds : conn.tasks[u].kind # "init"
       \/ \E id \in ConnIds : conn.links[id].consumers # {}
    /\ FreeTasks(conn) # {}
    /\ LET t == CHOOSE u \in FreeTasks(conn) : \A v \in FreeTasks(conn) : u <= v
       IN conn' = [conn EXCEPT !.tasks[t] =
                      [NoTask EXCEPT !.kind = "publish", !.pc = "start"]]
    /\ UNCHANGED Others

\* a caller invokes subscribe(queue, callback)
SubscribeCall(queue) ==
    /\ \/ \A u \in TaskIds : conn.tasks[u].kind # "init"
       \/ \E id \in ConnIds : conn.links[id].consumers # {}
    /\ FreeTasks(conn) # {}
    /\ LET t == CHOOSE u \in FreeTasks(conn) : \A v \in FreeTasks(conn) : u <= v
       IN conn' = [conn EXCEPT !.tasks[t] =
                      [NoTask EXCEPT !.kind = "subscribe", !.pc = "start",
                                     !.queue = queue]]
    /\ UNCHANGED Others

AssertQueueSettles(t) ==
    /\ conn.tasks[t].pc = "sub_assert"
    /\ conn' = QueueAsserted(conn, t)
    /\ UNCHANGED Others

ConsumeSettles(t) ==
    /\ conn.tasks[t].pc = "sub_consume"
    /\ conn' = Consuming(conn, t)
    /\ UNCHANGED Others

NextConn ==
    \/ \E t \in TaskIds :
          \/ TaskStart(t)
          \/ ConnectSucceeds(t)
          \/ ConnectFails(t)
          \/ CreateChannelSettles(t)
          \/ ExchangesSettle(t)
          \/ QueuesSettle(t)
          \/ SubscriptionsSettle(t)
          \/ RetryTimer(t)
          \/ ChannelCloseSettles(t)
          \/ ConnectionCloseSettles(t)
          \/ AssertQueueSettles(t)
          \/ ConsumeSettles(t)
    \/ \E id \in ConnIds, n \in {1, 2} : BrokerDrops(id, n)
    \/ PublishCall
    \/ \E queue \in Queues : SubscribeCall(queue)

SpecConn == Init /\ [][NextConn]_vars

\* the manager is Connected on connection id: this.connection and
\* this.channel are the open connection and its open channel and no
\* connect() is in progress
ConnectedOn(st, id) ==
    /\ st.connection = id /\ st.channel = id
    /\ st.links[id].conn = "open" /\ st.links[id].chan = "open"
    /\ ~st.isConnecting

\* the broker ends the established connection of a Connected manager
EstablishedDrops(id, n) ==
    /\ ConnectedOn(conn, id)
    /\ BrokerDrops(id, n)

\* the connection manager with a broker that accepts every connection and
\* now and then ends the established one; no connect() fails, so no retry
\* timer is armed, and cleanup finds the channel closed, so nothing is left
\* for it to close
NextReconnect ==
    \/ \E t \in TaskIds :
          \/ TaskStart(t)
          \/ ConnectSucceeds(t)
          \/ CreateChannelSettles(t)
          \/ ExchangesSettle(t)
          \/ QueuesSettle(t)
          \/ SubscriptionsSettle(t)
          \/ AssertQueueSettles(t)
          \/ ConsumeSettles(t)
    \/ \E id \in ConnIds, n \in {1, 2} : EstablishedDrops(id, n)
    \/ PublishCall
    \/ \E queue \in Queues : SubscribeCall(queue)

\* every awaited broker operation settles
SpecReconnect ==
    /\ Init /\ [][NextReconnect]_vars
    /\ \A t \in TaskIds :
          /\ WF_vars(TaskStart(t))
          /\ WF_vars(ConnectSucceeds(t))
          /\ WF_vars(CreateChannelSettles(t))
          /\ WF_vars(ExchangesSettle(t))
          /\ WF_vars(QueuesSettle(t))
          /\ WF_vars(SubscriptionsSettle(t))
          /\ WF_vars(AssertQueueSettles(t))
          /\ WF_vars(ConsumeSettles(t))

\* deductStock as the only writer of the ledger: the deduct responder and a
\* direct caller of deductStock
NextDeduct ==
    \/ \E content \in Contents : Deliver("m2", ORDER_STOCK_DEDUCT, content)
    \/ \E i \in 1 .. MaxItems : CheckItem(i)
    \/ \E i \in 1 .. MaxItems : DeductItem(i)
    \/ Ack
    \/ Redeliver
    \/ Finish
    \/ \E code \in Codes, qty \in Qtys : DirectCall("deductStock", code, qty)
    \/ DirectStep
    \/ DirectEnd
    \/ ChannelClosed
    \/ ChannelReopened

SpecDeduct == Init /\ [][NextDeduct]_vars

\* the responders beside one other writer of the ledger
NextLive ==
    \/ \E m \in Msgs, content \in Contents : Deliver(m, QueueOf(m), content)
    \/ \E i \in 1 .. MaxItems : CheckItem(i)
    \/ \E i \in 1 .. MaxItems : DeductItem(i)
    \/ Ack
    \/ Redeliver
    \/ Finish
    \/ \E op \in {"updateStock", "deductStock"}, code \in Codes, qty \in Qtys :
           DirectCall(op, code, qty)
    \/ DirectStep
    \/ DirectEnd
    \/ ChannelClosed
    \/ ChannelReopened

\* the handler steps the event loop runs whenever they are enabled
SpecLive ==
    /\ Init /\ [][NextLive]_vars
    /\ \A i \in 1 .. MaxItems : WF_vars(CheckItem(i)) /\ WF_vars(DeductItem(i))
    /\ WF_vars(Ack)
    /\ WF_vars(Redeliver)
    /\ WF_vars(Finish)

---------------------------------------------------------------------------
(* Properties                                                              *)

\* every service call in progress or just ended
Calls == {direct} \cup {rpc.tasks[i] : i \in 1 .. Len(rpc.tasks)}

ChecksDone(h) ==
    /\ Len(h.checks) = Len(h.content.items)
    /\ \A i \in 1 .. Len(h.checks) : h.checks[i].status = "ok"

Unavailable(h) == \E i \in 1 .. Len(h.checks) : ~h.checks[i].available

\* C1: a stock-deduct request whose batch availability check found an item
\* unavailable (missing, or stored quantity < requested) makes no ledger
\* write and hands no stock event to the publisher, and every reply it
\* publishes has success = false.
C1_UnavailableBatchRejected ==
    (rpc.queue = ORDER_STOCK_DEDUCT /\ ChecksDone(rpc) /\ Unavailable(rpc)) =>
        /\ rpc.pc \notin {"checking", "deducting"}
        /\ \A i \in 1 .. Len(rpc.tasks) :
               rpc.tasks[i].wrote = 0 /\ rpc.tasks[i].handed = 0
        /\ Len(rpc.tasks) = 0
        /\ \A k \in 1 .. Len(rpc.replies) : ~rpc.replies[k].body.success

\* a two-item deduct batch with the first item available and the second not
\* was answered and acknowledged
C1_Witness ==
    /\ rpc.queue = ORDER_STOCK_DEDUCT
    /\ rpc.pc = "done"
    /\ Len(rpc.checks) = 2
    /\ rpc.checks[1].available /\ ~rpc.checks[2].available
    /\ Len(rpc.replies) = 1

\* C2: every stored quantity is >= 0 in every reachable state, under every
\* interleaving of createItem, updateStock, deductStock and the batch
\* check/deduct handlers with non-negative requested quantities.
C2_QuantityNonNegative == \A c \in DOMAIN ledger : ledger[c].quantity >= 0

\* two deductStock calls on one item both passed the guard on the same
\* fetched quantity and both wrote
C2_Witness ==
    /\ direct.op = "deductStock" /\ direct.pc = "publish" /\ direct.qty >= 1
    /\ \E i \in 1 .. Len(rpc.tasks) :
          /\ rpc.tasks[i].pc = "publish"
          /\ rpc.tasks[i].code = direct.code
          /\ rpc.tasks[i].event.previousQuantity = direct.event.previousQuantity

NotFound(c) == c.result.error = "NotFoundException"

InsufficientStock(c) ==
    /\ c.result.error = "Error"
    /\ \E name \in {NameOf(code) : code \in Codes}, availableQty \in 0 .. MaxQty :
          /\ availableQty < c.qty
          /\ c.result.message = InsufficientStockMessage(name, c.qty, availableQty)

\* the step in which deductStock call c (c2 after the step) fails its guards
DeductFailsStep(c, c2) ==
    /\ c.op = "deductStock" /\ c.pc = "find"
    /\ c2.op = "deductStock" /\ c2.pc = "threw"

\* what that step must be
DeductFailure(c, c2) ==
    /\ ledger' = ledger
    /\ c2.wrote = 0 /\ c2.handed = 0 /\ c2.emitted = 0
    /\ IF c.code \notin DOMAIN ledger THEN NotFound(c2)
       ELSE /\ ledger[c.code].quantity < c.qty
            /\ c2.result.error = "Error"
            /\ c2.result.message =
                   InsufficientStockMessage(ledger[c.code].name, c.qty,
                                            ledger[c.code].quantity)

\* C3: a deductStock call that fails because the item is missing (NotFound)
\* or because the stored quantity is below the requested one (an error
\* naming the item, the requested and the available quantity) has written
\* nothing to the ledger and handed no event to the publisher.
C3_FailedDeductNoEffect ==
    /\ [](\A c \in Calls :
            (c.op = "deductStock" /\ c.pc = "threw" /\ c.wrote = 0) =>
                /\ NotFound(c) \/ InsufficientStock(c)
                /\ c.handed = 0 /\ c.emitted = 0 /\ c.event = NoEvent)
    /\ [][/\ DeductFailsStep(direct, direct') => DeductFailure(direct, direct')
          /\ \A i \in 1 .. Len(rpc.tasks) :
                (i <= Len(rpc'.tasks) /\ DeductFailsStep(rpc.tasks[i], rpc'.tasks[i]))
                    => DeductFailure(rpc.tasks[i], rpc'.tasks[i])]_vars

\* a deductStock call failed on a missing item, another on insufficient
\* stock although the batch check before it had found the item available
C3_Witness ==
    /\ direct.op = "deductStock" /\ direct.pc = "threw" /\ NotFound(direct)
    /\ \E i \in 1 .. Len(rpc.tasks) :
          rpc.tasks[i].pc = "threw" /\ InsufficientStock(rpc.tasks[i])

\* the step in which the save of deductStock call c reaches the ledger
DeductWriteStep(c, c2) ==
    /\ c.op = "deductStock" /\ c.pc = "write"
    /\ c2.op = "deductStock" /\ c2.pc = "publish"

\* what that step must be when no other writer came between read and write
DeductWrite(c, c2) ==
    ~c.interfered =>
        /\ ledger'[c.code].quantity = ledger[c.code].quantity - c.qty
        /\ c2.event.eventType = STOCK_REDUCED
        /\ c2.event.productCode = c.code
        /\ c2.event.previousQuantity = ledger[c.code].quantity
        /\ c2.event.newQuantity = ledger[c.code].quantity - c.qty

\* C4: a deductStock call on an existing item with stored quantity >= qty,
\* with no other writer of the item between its read and its write, stores
\* stored - qty and hands exactly one event to the publisher, of type
\* REDUCED, with previousQuantity = stored and newQuantity = stored - qty;
\* the event reaches the channel once when publish returns.
C4_DeductOnSufficientStock ==
    /\ [](\A c \in Calls :
            (c.op = "deductStock" /\ c.wrote >= 1) =>
                /\ c.wrote = 1
                /\ c.event.eventType = STOCK_REDUCED
                /\ c.handed = IF c.pc = "publish" THEN 0 ELSE 1
                /\ c.emitted = IF c.pc = "returned" THEN 1 ELSE 0
                /\ c.pc \in {"publish", "returned", "threw"})
    /\ [][/\ DeductWriteStep(direct, direct') => DeductWrite(direct, direct')
          /\ \A i \in 1 .. Len(rpc.tasks) :
                (i <= Len(rpc'.tasks) /\ DeductWriteStep(rpc.tasks[i], rpc'.tasks[i]))
                    => DeductWrite(rpc.tasks[i], rpc'.tasks[i])]_vars

\* a deduction of a positive quantity, undisturbed, returned
C4_Witness ==
    /\ direct.op = "deductStock" /\ direct.pc = "returned"
    /\ direct.qty >= 1
    /\ direct.event.newQuantity = direct.event.previousQuantity - direct.qty
    /\ ledger[direct.code].quantity = direct.event.newQuantity

\* the result checkStock must give for the ledger it reads
CheckStockExpected(result, code, qty) ==
    /\ result.status = "ok"
    /\ IF code \in DOMAIN ledger
       THEN /\ result.available = (ledger[code].quantity >= qty)
            /\ result.currentStock = ledger[code].quantity
       ELSE /\ result.available = FALSE
            /\ result.currentStock = 0

\* C5: checkStock never raises, never changes the ledger and publishes no
\* event; for an existing item it returns available = (stored >= qty) and
\* currentStock = stored, for a missing code available = false and
\* currentStock = 0.
C5_CheckStock ==
    /\ [](direct.op = "checkStock" =>
            /\ direct.pc # "threw"
            /\ direct.wrote = 0 /\ direct.handed = 0 /\ direct.emitted = 0)
    /\ [][/\ (direct.op = "checkStock" /\ direct.pc = "find" /\ direct' # direct) =>
                /\ direct'.pc = "returned"
                /\ ledger' = ledger
                /\ CheckStockExpected(direct'.result, direct.code, direct.qty)
          /\ \A i \in 1 .. Len(rpc.checks) :
                (/\ rpc.pc = "checking" /\ rpc.checks[i].status = "pending"
                 /\ i <= Len(rpc'.checks) /\ rpc'.checks[i].status # "pending") =>
                    /\ ledger' = ledger
                    /\ CheckStockExpected(rpc'.checks[i],
                                          rpc.content.items[i].productCode,
                                          rpc.content.items[i].quantity)]_vars

\* checkStock answered for an item with too little stock and for a missing one
C5_Witness ==
    /\ direct.op = "checkStock" /\ direct.pc = "returned"
    /\ direct.code \in DOMAIN ledger
    /\ ~direct.result.available
    /\ direct.result.currentStock = ledger[direct.code].quantity
    /\ \E i \in 1 .. Len(rpc.checks) :
          /\ rpc.checks[i].status = "ok"
          /\ rpc.checks[i].message = "Item not found in inventory"

\* C6: every reply of the stock-check and stock-deduct responders, success
\* or failure, goes to the default exchange with routing key = the request's
\* replyTo and carries the request's correlationId.
C6_ReplyAddressing ==
    \A k \in 1 .. Len(rpc.replies) :
        /\ rpc.replies[k].exchange = ""
        /\ rpc.replies[k].routingKey = ReplyToOf(rpc.msg)
        /\ rpc.replies[k].correlationId = CorrelationIdOf(rpc.msg)
        /\ \A m \in Msgs \ {rpc.msg} :
               rpc.replies[k].correlationId # CorrelationIdOf(m)

\* a failure reply to the deduct request m2 was published
C6_Witness ==
    /\ rpc.msg = "m2"
    /\ Len(rpc.replies) = 1
    /\ ~rpc.replies[1].body.success
    /\ rpc.replies[1].correlationId = "corr-m2"

\* C7: a request message is acknowledged only after a reply publish for it
\* was attempted; a run that ends without a published reply leaves the
\* message unacknowledged, to be delivered again.
C7_AckAfterReplyAttempt ==
    /\ [](rpc.acked => rpc.attempts >= 1 /\ Len(rpc.replies) >= 1)
    /\ [](rpc.pc = "rejected" => ~rpc.acked)
    /\ [][(~rpc.acked /\ rpc'.acked) =>
             (rpc.pc = "ack" /\ rpc.attempts >= 1 /\ rpc'.msg = rpc.msg)]_vars
    /\ [][(rpc.pc = "rejected" /\ rpc'.pc # "rejected") =>
             (rpc'.msg = rpc.msg /\ rpc'.content = rpc.content /\ ~rpc'.acked)]_vars

\* a run whose error reply was published and then acknowledged
C7_Witness ==
    /\ rpc.pc = "done" /\ rpc.acked /\ rpc.caught
    /\ rpc.attempts = 1
    /\ Len(rpc.replies) = 1

\* C8: while the channel stays usable, every request delivered to either
\* responder, a malformed one and one whose processing raises included, gets
\* a reply published and is acknowledged; an error becomes a reply with
\* success = false and the consumer callback never rejects.
C8_EveryRequestReplied ==
    ([]channelOpen) =>
        /\ [](rpc.pc # "rejected")
        /\ []((rpc.pc = "done" /\ rpc.caught) =>
                 (Len(rpc.replies) = 1 /\ ~rpc.replies[1].body.success
                    /\ rpc.replies[1].body.message # ""))
        /\ (rpc.pc # "idle") ~> (rpc.pc = "done" /\ rpc.acked /\ Len(rpc.replies) = 1)

\* a malformed request was answered with its parse error
C8_Witness ==
    /\ rpc.pc = "done" /\ rpc.content.kind = "badjson"
    /\ Len(rpc.replies) = 1
    /\ rpc.replies[1].body.message = "Unexpected token in JSON"
    /\ ~rpc.replies[1].body.success

ConnectsInFlight == {t \in TaskIds : InConnect(conn.tasks[t])}

\* C9: a connectWithRetry call made while isConnecting is set returns
\* without starting an attempt, and at most one connect() is in progress at
\* any time, whatever the interleaving of startup, broker error/close events
\* and publish-triggered reconnects.
C9_SingleConnectInFlight ==
    /\ Cardinality(ConnectsInFlight) <= 1
    /\ conn.isConnecting <=> ConnectsInFlight # {}

\* a connectWithRetry call returned at once while the connect() of another
\* call was in progress
C9_Witness ==
    /\ conn.lastEntry = "noop"
    /\ conn.isConnecting
    /\ Cardinality(ConnectsInFlight) = 1

OpenConnections == {id \in ConnIds : conn.links[id].conn = "open"}

\* C10: at most one broker connection opened by the manager is open in
\* every reachable state.
C10_AtMostOneOpenConnection == Cardinality(OpenConnections) <= 1

\* the connect() attempt a retry loop is making, counted from 1: the loop
\* entered with retryCount 0 and every failed attempt added 1
AttemptNumber(task) == task.retryCount + 1

\* C11: when its attempts fail, one retry loop (connectWithRetry entered with
\* retryCount 0) makes at most maxRetries = 5 connect() attempts in all, and
\* then stops.
C11_AtMostMaxRetriesAttempts ==
    \A t \in TaskIds :
        InConnect(conn.tasks[t]) => AttemptNumber(conn.tasks[t]) <= maxRetries

\* the calls that enter connect() in this step
Starters == {t \in TaskIds : ~InConnect(conn.tasks[t]) /\ InConnect(conn'.tasks[t])}

\* C12: once a retry loop has exhausted its attempts (and connectWithRetry
\* has not been called since), the manager starts no connection attempt on
\* its own: the next connect() is made on behalf of a publish or subscribe
\* call requesting the channel, not by a retry timer and not by a
\* handleReconnect of the manager.
C12_NoAutomaticAttemptAfterExhaustion ==
    [][(conn.lastEntry = "exhausted" /\ Starters # {}) =>
          \A t \in Starters :
              /\ conn'.tasks[t].kind \in {"publish", "subscribe"}
              /\ conn.tasks[t].pc # "delay"]_vars

Connected == \E id \in ConnIds : ConnectedOn(conn, id)

\* the broker ends connection id in this step: it goes down, and not as the
\* settling of a connection.close() of cleanup
DroppedId(id) ==
    /\ conn.links[id].conn \in {"open", "closing"} /\ conn'.links[id].conn = "closed"
    /\ ~(\E t \in TaskIds : conn.tasks[t].pc = "cleanup_conn"
                              /\ conn.tasks[t].ref = id
                              /\ conn'.tasks[t] # conn.tasks[t])

Dropped == \E id \in ConnIds : DroppedId(id)

FullTopology ==
    [exchanges |-> {[name |-> "inventory.exchange", type |-> "topic", durable |-> TRUE]},
     queues |-> {[name |-> "ORDER_STOCK_CHECK", durable |-> TRUE],
                 [name |-> "ORDER_STOCK_DEDUCT", durable |-> TRUE]},
     bindings |-> {[queue |-> "ORDER_STOCK_CHECK", exchange |-> "inventory.exchange",
                    key |-> "inventory.stock.check"],
                   [queue |-> "ORDER_STOCK_DEDUCT", exchange |-> "inventory.exchange",
                    key |-> "inventory.stock.deduct"]}]

\* the channel of connection id carries the whole setup of connect()
SetUp(st, id) ==
    /\ st.links[id].declared = FullTopology
    /\ st.links[id].consumers = {"ORDER_STOCK_CHECK", "ORDER_STOCK_DEDUCT"}

\* the step in which the connectWithRetry call of task t reports success
ReportsSuccess(t) ==
    /\ InConnect(conn.tasks[t]) /\ ~InConnect(conn'.tasks[t])
    /\ conn'.tasks[t].pc # "delay"
    /\ conn'.lastEntry # "exhausted"

\* C14: every transition to Connected, first connect or reconnect, has
\* declared the exchange, both queues and both bindings on the newly created
\* channel and registered the stock-check and stock-deduct consumers on it;
\* connectWithRetry reports success only then, so in every Connected state
\* both consumers are active on the current channel.
C14_ConnectedMeansSetUp ==
    /\ [](\A id \in ConnIds : ConnectedOn(conn, id) => SetUp(conn, id))
    /\ [][\A t \in TaskIds :
             ReportsSuccess(t) =>
                 /\ conn.tasks[t].pc = "subscriptions"
                 /\ conn.tasks[t].ref = conn.channel
                 /\ conn'.channel = conn.channel
                 /\ conn.links[conn.channel].chan = "open"
                 /\ SetUp(conn', conn.channel)]_vars

\* the manager is Connected again, on its second connection, after a retry
\* loop started by the broker ending the first one
C14_Witness ==
    /\ ConnectedOn(conn, 2) /\ SetUp(conn, 2)
    /\ conn.links[1].conn = "closed"
    /\ conn.lastEntry = "started"
    /\ conn.broker = FullTopology

\* C15: a publish() call whose channel publish throws performs exactly
\* one reconnect (one handleReconnect) and then exactly one retry; when the
\* retry throws too, publish() throws. No publish() call makes more than two
\* channel publish attempts, and publish() never returns normally without
\* the message having been handed to a channel.
C15_OneReconnectOneRetry ==
    LET p == conn.lastPublish IN
    p.outcome # "none" =>
        /\ p.attempts <= 2
        /\ p.reconnects <= 1
        /\ p.attempts = 2 <=> p.reconnects = 1
        /\ p.outcome = "returned" <=> p.handed
        /\ (p.attempts = 2 /\ ~p.handed) => p.outcome = "threw"
        /\ p.attempts = 0 => p.outcome = "threw"

\* a publish() call threw after its first channel publish, the reconnect
\* and the retry, and a publish task is on its way through the reconnect
C15_Witness ==
    /\ conn.lastPublish = [outcome |-> "threw", attempts |-> 2, reconnects |-> 1,
                            handed |-> FALSE]
    /\ \E t \in TaskIds : conn.tasks[t].kind = "publish" /\ conn.tasks[t].stage = 2

\* the step in which the event publication of call c (c2 after it) fails
PublishFailsStep(c, c2) ==
    /\ c.pc = "publish" /\ c2.pc = "threw" /\ c2.op = c.op

\* what that step must be: the error reaches the caller, the ledger keeps
\* the write
PublishFailure(c, c2) ==
    /\ c2.result.status = "error" /\ c2.result.error # ""
    /\ c2.wrote = 1 /\ c2.handed = 1 /\ c2.emitted = 0
    /\ ledger' = ledger
    /\ c.code \in DOMAIN ledger'

\* the step in which the write of call c reaches the ledger, no other
\* writer of the item having come between its read and this write
CommitStep(c, c2) ==
    /\ c.pc = "write" /\ c2.pc = "publish" /\ c2.op = c.op
    /\ ~c.interfered

\* C16: when the event publication fails inside deductStock, updateStock or
\* createItem, the operation raises the error to its caller (a call that
\* returns normally after its write had its event delivered) and the ledger
\* write it committed is kept: the failing step changes nothing in the
\* ledger, which got the event's newQuantity at the (undisturbed) write.
C16_PublishFailureKeepsWrite ==
    /\ [](\A c \in Calls :
            /\ (c.pc = "threw" /\ c.wrote >= 1) =>
                   (c.wrote = 1 /\ c.emitted = 0 /\ c.result.status = "error")
            /\ (c.pc = "returned" /\ c.wrote >= 1) => c.emitted = 1)
    /\ [][/\ PublishFailsStep(direct, direct') => PublishFailure(direct, direct')
          /\ CommitStep(direct, direct') =>
                 ledger'[direct'.code].quantity = direct'.event.newQuantity
          /\ \A i \in 1 .. Len(rpc.tasks) :
                i <= Len(rpc'.tasks) =>
                    /\ PublishFailsStep(rpc.tasks[i], rpc'.tasks[i]) =>
                           PublishFailure(rpc.tasks[i], rpc'.tasks[i])
                    /\ CommitStep(rpc.tasks[i], rpc'.tasks[i]) =>
                           ledger'[rpc'.tasks[i].code].quantity =
                               rpc'.tasks[i].event.newQuantity]_vars

\* an updateStock call threw at the publication of its event; the ledger
\* holds the quantity it wrote
C16_Witness ==
    /\ direct.op = "updateStock" /\ direct.pc = "threw" /\ direct.wrote = 1
    /\ direct.event.newQuantity # direct.event.previousQuantity
    /\ ledger[direct.code].quantity = direct.event.newQuantity
    /\ direct.result.error = "Error"

\* the event type the claim gives for a change from prior to newQty
UpdateEventType(prior, newQty) ==
    IF newQty > prior THEN "STOCK_ADDED" ELSE "STOCK_REDUCED"

\* C17: updateStock(code, newQty) on an existing item sets the stored
\* quantity to newQty and publishes one event with previousQuantity = the
\* prior quantity and newQuantity = newQty, of type ADDED when newQty > prior
\* and REDUCED when newQty <= prior (equal quantities included), no other
\* writer coming between its read and its write; on a missing item it raises
\* NotFound without ledger write or event.
C17_UpdateStock ==
    /\ [](direct.op = "updateStock" =>
            /\ direct.wrote <= 1 /\ direct.handed <= 1
            /\ direct.pc = "returned" =>
                   (direct.wrote = 1 /\ direct.handed = 1 /\ direct.emitted = 1)
            /\ (direct.pc = "threw" /\ direct.wrote = 0) =>
                   (NotFound(direct) /\ direct.handed = 0 /\ direct.event = NoEvent))
    /\ [][direct.op = "updateStock" /\ direct'.op = "updateStock" =>
             /\ (direct.pc = "find" /\ direct'.pc # "find") =>
                    /\ ledger' = ledger
                    /\ direct'.pc = "threw" <=> direct.code \notin DOMAIN ledger
                    /\ direct'.pc = "write" <=> direct.code \in DOMAIN ledger
             /\ (direct.pc = "write" /\ direct'.pc # "write") =>
                    /\ direct'.pc = "publish"
                    /\ ledger'[direct.code].quantity = direct.qty
                    /\ \A c \in DOMAIN ledger \ {direct.code} : ledger'[c] = ledger[c]
                    /\ direct'.event.productCode = direct.code
                    /\ direct'.event.newQuantity = direct.qty
                    /\ ~direct.interfered =>
                          /\ direct'.event.previousQuantity = ledger[direct.code].quantity
                          /\ direct'.event.eventType =
                                 UpdateEventType(ledger[direct.code].quantity, direct.qty)]_vars

\* an updateStock call that left the quantity as it was returned with a
\* REDUCED event
C17_Witness ==
    /\ direct.op = "updateStock" /\ direct.pc = "returned"
    /\ direct.event.previousQuantity = direct.event.newQuantity
    /\ direct.event.eventType = STOCK_REDUCED
    /\ ledger[direct.code].quantity = direct.qty

\* a stock-check run on a request with well-formed items
CheckRun == rpc.queue = ORDER_STOCK_CHECK /\ rpc.content.kind = "items"

\* the texts of the unavailable items, in request order
UnavailableTexts ==
    LET unavailable == SelectSeq(rpc.checks, LAMBDA r : ~r.available)
    IN [i \in 1 .. Len(unavailable) |-> unavailable[i].message]

\* C18: for a stock-check request with well-formed items the reply has
\* success = the conjunction of the per-item available flags, one detail
\* entry per request item, availableStock mapping each requested product
\* code to the current stock of (the last entry of) that code, and a message
\* made of the texts of the unavailable items joined by "; ", or 'All items
\* in stock' when there is none; an unavailable or missing item never aborts
\* the batch, and handling the request changes no ledger quantity.
C18_StockCheckReply ==
    /\ []((CheckRun /\ ~rpc.caught /\ Len(rpc.replies) >= 1) =>
            LET body == rpc.replies[1].body
                n == Len(rpc.content.items)
                allAvailable == \A i \in 1 .. n : rpc.checks[i].available
            IN /\ Len(rpc.replies) = 1
               /\ body.success = allAvailable
               /\ Len(body.details) = n
               /\ \A i \in 1 .. n :
                      /\ body.details[i].productCode = rpc.content.items[i].productCode
                      /\ body.details[i].available = rpc.checks[i].available
                      /\ body.details[i].currentStock = rpc.checks[i].currentStock
                      /\ body.details[i].message = rpc.checks[i].message
               /\ DOMAIN body.availableStock =
                      {rpc.content.items[i].productCode : i \in 1 .. n}
               /\ \A i \in 1 .. n :
                      (\A j \in i + 1 .. n : rpc.content.items[j].productCode #
                                                  rpc.content.items[i].productCode)
                          => body.availableStock[rpc.content.items[i].productCode] =
                                 rpc.checks[i].currentStock
               /\ body.message = IF allAvailable THEN "All items in stock"
                                  ELSE Join(UnavailableTexts, "; "))
    /\ []((CheckRun /\ rpc.pc # "checking") =>
            /\ Len(rpc.checks) = Len(rpc.content.items)
            /\ \A i \in 1 .. Len(rpc.checks) : rpc.checks[i].status = "ok"
            /\ rpc.caught => rpc.attempts >= 1)
    /\ [][(CheckRun /\ rpc' # rpc) => ledger' = ledger]_vars

\* a check of an item with too little stock and of a missing item was
\* answered with both texts
C18_Witness ==
    /\ CheckRun /\ ~rpc.caught /\ rpc.pc = "done"
    /\ Len(rpc.content.items) = 2
    /\ rpc.replies[1].body.message =
           "Insufficient stock. Requested: 1, Available: 0; Item not found in inventory"
    /\ ~rpc.replies[1].body.success
    /\ rpc.replies[1].body.availableStock = [c \in {"A", "B"} |-> 0]

\* a declaration step of connect() in progress on an open channel
Declaring(t) ==
    /\ conn.tasks[t].pc \in {"exchanges", "queues"}
    /\ conn.links[conn.channel].chan = "open"

\* C19: running the topology declaration more than once (the queue and
\* binding declarations twice inside one connect(), all of them again on
\* every reconnect) yields the topology of running it once, exactly one
\* exchange, the two queues and the two bindings, and no declaration is
\* refused.
C19_DeclarationIdempotent ==
    /\ [](/\ conn.broker.exchanges \subseteq FullTopology.exchanges
          /\ conn.broker.queues \subseteq FullTopology.queues
          /\ conn.broker.bindings \subseteq FullTopology.bindings
          /\ (\E id \in ConnIds : conn.links[id].declared = FullTopology)
                 => conn.broker = FullTopology)
    /\ [](/\ Cardinality(FullTopology.exchanges) = 1
          /\ Cardinality(FullTopology.queues) = 2
          /\ Cardinality(FullTopology.bindings) = 2)
    /\ [][\A t \in TaskIds :
             (Declaring(t) /\ conn'.tasks[t] # conn.tasks[t]) =>
                 /\ conn'.tasks[t].pc =
                        IF conn.tasks[t].pc = "exchanges" THEN "queues"
                        ELSE "subscriptions"
                 /\ conn'.broker = FullTopology
                 /\ conn'.links[conn.channel].declared = FullTopology
                 /\ conn.tasks[t].pc = "queues" => conn.broker = FullTopology]_vars

\* the declarations were run again on the channel of a second connection,
\* after the first connection had been set up and lost
C19_Witness ==
    /\ \E t \in TaskIds : conn.tasks[t].pc = "subscriptions" /\ conn.tasks[t].ref = 2
    /\ conn.links[2].declared = FullTopology
    /\ conn.links[1].conn = "closed" /\ conn.links[1].chan = "closed"
    /\ conn.broker = FullTopology

\* the kind of an event as the routing keys are said to name it
KindOf(eventType) ==
    CASE eventType = "STOCK_ADDED" -> "added"
      [] eventType = "STOCK_REDUCED" -> "reduced"
      [] eventType = "STOCK_UPDATED" -> "updated"
      [] OTHER -> eventType

\* C20: every domain event is published to the inventory exchange under the
\* routing key inventory.stock.<k>, k being the lower-cased event kind:
\* added for an ADDED event, reduced for a REDUCED event, updated for an
\* UPDATED event.
C20_RoutingKeyByKind ==
    \A c \in Calls :
        c.handed >= 1 =>
            /\ c.exchange = "inventory.exchange"
            /\ c.routingKey = "inventory.stock." \o KindOf(c.event.eventType)

\* what the save of deductStock call c does to the ledger: the quantity
\* the call read less its own quantity, whatever was stored meanwhile
StaleWrite(c) ==
    c.qty >= 1 =>
        /\ c.item.quantity >= c.qty
        /\ ledger'[c.code].quantity = c.item.quantity - c.qty
        /\ ledger'[c.code].quantity >= 0

\* C21 (as the code behaves): two concurrent deductStock calls on one item
\* can both pass the availability check before either commits; each then
\* stores the quantity it read less its own quantity, so the later save
\* overwrites the earlier one: a deduction is lost, and the stored quantity
\* is never driven negative.
C21_StaleWriteLosesUpdate ==
    [][/\ DeductWriteStep(direct, direct') => StaleWrite(direct)
       /\ \A i \in 1 .. Len(rpc.tasks) :
             (i <= Len(rpc'.tasks) /\ DeductWriteStep(rpc.tasks[i], rpc'.tasks[i]))
                 => StaleWrite(rpc.tasks[i])]_vars

\* what the save would do if the over-deduction showed in the ledger
GoesNegative(c) ==
    ledger[c.code].quantity < c.qty => ledger'[c.code].quantity < 0

\* C21 (as stated): two concurrent deductStock calls against the same item
\* can both pass the availability check before either commits, and the
\* commit of the second, on a stored quantity that no longer covers it,
\* drives the stored quantity negative.
C21_OverDeductionGoesNegative ==
    [][/\ DeductWriteStep(direct, direct') => GoesNegative(direct)
       /\ \A i \in 1 .. Len(rpc.tasks) :
             (i <= Len(rpc'.tasks) /\ DeductWriteStep(rpc.tasks[i], rpc'.tasks[i]))
                 => GoesNegative(rpc.tasks[i])]_vars

\* two deductStock calls read the same quantity, which covers each but not
\* both, and both saved: the ledger holds what the later one stored
C21_Witness ==
    /\ direct.op = "deductStock" /\ direct.wrote = 1 /\ direct.qty >= 1
    /\ \E i \in 1 .. Len(rpc.tasks) :
          /\ rpc.tasks[i].wrote = 1
          /\ rpc.tasks[i].code = direct.code
          /\ rpc.tasks[i].event.previousQuantity = direct.event.previousQuantity
          /\ rpc.tasks[i].qty + direct.qty > direct.event.previousQuantity
          /\ ledger[direct.code].quantity = direct.event.newQuantity
          /\ ledger[direct.code].quantity >= 0

\* the save of deductStock call c takes its quantity off the stored one
Counted(c) == ledger'[c.code].quantity = ledger[c.code].quantity - c.qty

\* C22: with deductStock calls as the only writers of an item (two entries
\* of one product code inside a deduct batch and concurrent callers
\* included), every successful call takes its quantity off the stored
\* quantity, so that once all calls have completed the stored quantity is
\* the initial one minus the sum of the successful calls: no successful
\* deduction is lost or overwritten.
C22_EveryDeductionCounts ==
    [][/\ DeductWriteStep(direct, direct') => Counted(direct)
       /\ \A i \in 1 .. Len(rpc.tasks) :
             (i <= Len(rpc'.tasks) /\ DeductWriteStep(rpc.tasks[i], rpc'.tasks[i]))
                 => Counted(rpc.tasks[i])]_vars

\* C23: the stock-deduct reply reports what was deducted: a reply with
\* success = true implies that every item of the request was written to the
\* ledger, and a reply with success = false implies that handling the
\* request wrote nothing to the ledger.
C23_ReplyReportsDeduction ==
    (rpc.queue = ORDER_STOCK_DEDUCT /\ rpc.content.kind = "items") =>
        \A k \in 1 .. Len(rpc.replies) :
            IF rpc.replies[k].body.success
            THEN /\ Len(rpc.tasks) = Len(rpc.content.items)
                 /\ \A i \in 1 .. Len(rpc.tasks) : rpc.tasks[i].wrote = 1
            ELSE \A i \in 1 .. Len(rpc.tasks) : rpc.tasks[i].wrote = 0

\* the step in which the write of updateStock or deductStock call c reaches
\* the ledger and the event of the call is built
ReportedWriteStep(c, c2) ==
    /\ c.op \in {"updateStock", "deductStock"} /\ c2.op = c.op
    /\ c.pc = "write" /\ c2.pc = "publish"

\* the event reports the ledger around that write
EventMatchesWrite(c, c2) ==
    /\ c2.event.previousQuantity = ledger[c.code].quantity
    /\ c2.event.newQuantity = ledger'[c.code].quantity

\* C24: every stock event of updateStock and deductStock has
\* previousQuantity = the ledger quantity of its item immediately before the
\* write the event reports and newQuantity = the ledger quantity immediately
\* after that write, under any interleaving of updateStock and deductStock
\* calls on the same item.
C24_EventMatchesLedger ==
    [][/\ ReportedWriteStep(direct, direct') => EventMatchesWrite(direct, direct')
       /\ \A i \in 1 .. Len(rpc.tasks) :
             (i <= Len(rpc'.tasks) /\ ReportedWriteStep(rpc.tasks[i], rpc'.tasks[i]))
                 => EventMatchesWrite(rpc.tasks[i], rpc'.tasks[i])]_vars

\* C25: whenever a retry loop ends in exhaustion, the channel handle is
\* unset in the resulting state, also when a connection had been established
\* earlier or a failed attempt had already created a channel, so that the
\* next publish takes the no-channel path.
C25_ChannelUnsetAfterExhaustion ==
    conn.lastEntry = "exhausted" => conn.channel = 0

\* C26: a message is acknowledged on the channel that delivered it: when a
\* reconnect replaced the channel while the handler of the message awaited
\* the ledger, between the delivery and the end of the handler, no
\* acknowledgment for the message has been sent, the channel in use being one
\* that did not deliver it.
C26_AckOnDeliveringChannel ==
    rpc.acked => ~rpc.replaced

\* C27: for each delivery of a request message the responder has published
\* at most one reply, never a success reply and an error reply both, also
\* when the acknowledgment after a successful reply failed.
C27_AtMostOneReply ==
    Len(rpc.replies) <= 1

\* the acknowledgment after a successful reply threw into the catch block,
\* whose error reply was not published: the success reply is the only one
C27_Witness ==
    /\ rpc.pc = "rejected"
    /\ rpc.caught
    /\ Len(rpc.replies) = 1
    /\ rpc.replies[1].body.success

====
